---- MODULE Spec2Model ----
(***************************************************************************)
(* Reservoir sampler (sampler/src/lib.rs) and the prize-tier lottery built *)
(* on it (choosen/src/lib.rs, choosen/src/builder.rs, choosen/src/pos.rs). *)
(*                                                                         *)
(* Slots are 1-based here: the source's pool[k - 1] is pool[k].            *)
(* Option<T> is modelled as a natural: None is 0, Some(it) is it > 0.      *)
(* The item type is never inspected by the code, so the k-th item fed to   *)
(* the sampler is identified by its arrival index k.                       *)
(***************************************************************************)
EXTENDS Naturals, Sequences, FiniteSets

VARIABLES
    variant,     \* what the program drives: "sampler" (a Reservoir alone), or a Choosen made
                 \* by the ChoosenBuilder of builder.rs ("builder") or of lib.rs ("legacy")
    positions,   \* ChoosenBuilder.positions: the staged list
    last,        \* the most recent API call: its operation, arguments and returned Result
    stage,       \* "staging": no sampler yet; "open": sampling; "closed": consumed by lock/release
    cpositions,  \* Choosen.positions
    capacity,    \* the n the sampler was constructed with (with_capacity(n))
    total,       \* Reservoir.total
    pool,        \* Reservoir.pool
    ret,         \* the tuple returned by the most recent sample call
    locked,      \* the Vec returned by lock
    result,      \* the Result returned by release
    history,     \* one record per sample call so far, in call order: its rank, the
                 \* value it returned, and whether it left every slot as it was
    tally        \* for one capacity, stream length and item: in how many of the equally
                 \* likely sequences of ranks the item is in the locked result

vars ==
    <<variant, positions, last, stage, cpositions, capacity, total, pool, ret, locked, result,
      history, tally>>

----------------------------------------------------------------------------
(* Bounds of the model *)

\* with_capacity(n) is explored for n in 0..MaxSlots
MaxSlots == 3
\* at most MaxDraws items are fed to one sampler
MaxDraws == 5
\* the staged list is explored up to MaxPositions entries
MaxPositions == 2

\* random::<usize>() yields a value of this set; it covers every residue of
\* every modulus the model reaches, and wraps around the small ones
MaxRaw == MaxDraws + MaxSlots
RawValues == 0..MaxRaw

\* arguments given to the builder's operations
Names == {"", "a", "b"}
\* capacities: the rejected one, the default one and another
Caps == {0, 1, 2}
Idxs == 0..MaxPositions

None == 0
IsSome(x) == x # None

----------------------------------------------------------------------------
(* sampler/src/lib.rs *)

\* a pool one slot longer than asked for
WithCapacityOneMore(n) == [total |-> 0, pool |-> [k \in 1..(n + 1) |-> None]]

\* Reservoir::with_capacity: total = 0 and n empty slots
WithCapacity(n) == [total |-> 0, pool |-> [k \in 1..n |-> None]]

\* Vec::capacity of a pool built by from_elem(None, n): exactly n
Capacity(p) == Len(p)

\* a rank drawn from one value too many: 1..n+1
RankOneMore(raw, n) == (raw % (n + 1)) + 1

\* random::<usize>() % n + 1: the rank in 1..n a raw random value gives
Rank(raw, n) == (raw % n) + 1

\* the displaced item is not put back into the slot the warm-up opened
SampleNoFill(t, p, it, raw) ==
    LET t1  == t + 1
        r   == Rank(raw, t1)
        hit == r <= Capacity(p)
    IN  [total |-> t1,
         pool  |-> IF hit THEN [p EXCEPT ![r] = it] ELSE p,
         ret   |-> <<r, t1, IF hit THEN p[r] ELSE None>>]

\* the warm-up is taken to end one item early: total < pool_cap
SampleFillEarly(t, p, it, raw) ==
    LET t1   == t + 1
        r    == Rank(raw, t1)
        hit  == r <= Capacity(p)
        fill == t1 < Capacity(p) /\ r < t1
        p1   == IF hit THEN [p EXCEPT ![r] = it] ELSE p
    IN  [total |-> t1,
         pool  |-> IF fill THEN [p1 EXCEPT ![t1] = p[r]] ELSE p1,
         ret   |-> <<r, t1, IF hit /\ ~fill THEN p[r] ELSE None>>]

\* the displaced item is put back and returned as well
SampleKeepReplaced(t, p, it, raw) ==
    LET t1   == t + 1
        r    == Rank(raw, t1)
        hit  == r <= Capacity(p)
        fill == t1 <= Capacity(p) /\ r < t1
        p1   == IF hit THEN [p EXCEPT ![r] = it] ELSE p
    IN  [total |-> t1,
         pool  |-> IF fill THEN [p1 EXCEPT ![t1] = p[r]] ELSE p1,
         ret   |-> <<r, t1, IF hit THEN p[r] ELSE None>>]

\* the last slot is never given away: r < pool_cap
SampleStrictHit(t, p, it, raw) ==
    LET t1   == t + 1
        r    == Rank(raw, t1)
        hit  == r < Capacity(p)
        fill == t1 <= Capacity(p) /\ r < t1
        rep  == IF hit THEN p[r] ELSE None
        p1   == IF hit THEN [p EXCEPT ![r] = it] ELSE p
    IN  [total |-> t1,
         pool  |-> IF fill THEN [p1 EXCEPT ![t1] = rep] ELSE p1,
         ret   |-> <<r, t1, IF fill THEN None ELSE rep>>]

\* the value taken out of the slot is dropped: None is returned on every call
SampleDropReplaced(t, p, it, raw) ==
    LET pool_cap  == Capacity(p)
        t1        == t + 1
        r         == Rank(raw, t1)
        hit       == r <= pool_cap
        replaced1 == IF hit THEN p[r] ELSE None
        p1        == IF hit THEN [p EXCEPT ![r] = it] ELSE p
        fill      == t1 <= pool_cap /\ r < t1
        p2        == IF fill THEN [p1 EXCEPT ![t1] = replaced1] ELSE p1
    IN  [total |-> t1, pool |-> p2, ret |-> <<r, t1, None>>]

\* Reservoir::sample on (t, p) with item it and raw random value raw:
\* the fields afterwards and the returned tuple
Sample(t, p, it, raw) ==
    LET pool_cap  == Capacity(p)
        t1        == t + 1
        r         == Rank(raw, t1)
        hit       == r <= pool_cap
        replaced1 == IF hit THEN p[r] ELSE None
        p1        == IF hit THEN [p EXCEPT ![r] = it] ELSE p
        fill      == t1 <= pool_cap /\ r < t1
        p2        == IF fill THEN [p1 EXCEPT ![t1] = replaced1] ELSE p1
        replaced2 == IF fill THEN None ELSE replaced1
    IN  [total |-> t1, pool |-> p2, ret |-> <<r, t1, replaced2>>]

\* the slot is copied, not taken: the source keeps its item
LockStepCopy(p, i, raw) ==
    LET r == Rank(raw, i)
    IN  IF r <= Capacity(p) THEN [p EXCEPT ![i] = p[r]] ELSE p

\* the move goes the wrong way: slot i - 1 is taken into slot r - 1
LockStepSwapped(p, i, raw) ==
    LET r == Rank(raw, i)
    IN  IF r <= Capacity(p)
        THEN LET taken == p[i]
             IN  [[p EXCEPT ![i] = None] EXCEPT ![r] = taken]
        ELSE p

\* one iteration of the loop of Reservoir::lock, i already incremented
LockStep(p, i, raw) ==
    LET r == Rank(raw, i)
    IN  IF r <= Capacity(p)
        THEN LET taken == p[r]
             IN  [[p EXCEPT ![r] = None] EXCEPT ![i] = taken]
        ELSE p

\* the loop of Reservoir::lock from i on a set of pools: every pool some
\* choice of raw random values can leave
RECURSIVE LockFrom(_, _)
LockFrom(ps, i) ==
    IF \A p \in ps : ~(i < Capacity(p))
    THEN ps
    ELSE LockFrom({LockStep(p, i + 1, raw) : p \in ps, raw \in RawValues}, i + 1)

\* the loop starts over from 0 instead of from total
LockFromZero(t, p) == LockFrom({p}, 0)

\* Reservoir::lock: the pools it can return
Lock(t, p) == LockFrom({p}, t)

\* the iterations of the loop of Reservoir::lock from i on a set of pools:
\* each <<i, p>> with i the incremented counter and p the pool the
\* iteration starts from
RECURSIVE LockVisits(_, _)
LockVisits(ps, i) ==
    IF \A p \in ps : ~(i < Capacity(p))
    THEN {}
    ELSE {<<i + 1, p>> : p \in ps}
         \cup LockVisits({LockStep(p, i + 1, raw) : p \in ps, raw \in RawValues}, i + 1)

----------------------------------------------------------------------------
(* choosen/src/pos.rs *)

\* Position::default
PositionDefault == [name |-> "default_name", cap |-> 1]

\* Position::set_name: Err(EmptyName) on an empty name, else the renamed position
SetName(pos, name) ==
    IF name = ""
    THEN [ok |-> FALSE, err |-> "EmptyName", pos |-> pos]
    ELSE [ok |-> TRUE, err |-> "", pos |-> [pos EXCEPT !.name = name]]

\* the capacity is assigned before it is validated
SetCapAssignFirst(pos, new_cap) ==
    [ok  |-> new_cap # 0,
     err |-> IF new_cap = 0 THEN "ZeroCapacity" ELSE "",
     pos |-> [pos EXCEPT !.cap = new_cap]]

\* Position::set_cap: Err(ZeroCapacity) on 0, else the resized position
SetCap(pos, new_cap) ==
    IF new_cap = 0
    THEN [ok |-> FALSE, err |-> "ZeroCapacity", pos |-> pos]
    ELSE [ok |-> TRUE, err |-> "", pos |-> [pos EXCEPT !.cap = new_cap]]

----------------------------------------------------------------------------
(* Returned Results *)

Ok == [tag |-> "Ok", err |-> "", idx |-> 0]
\* BuildChoosenError::WrongPositionType(e)
WrongPositionType(e) == [tag |-> "WrongPositionType", err |-> e, idx |-> 0]
\* BuildChoosenError::PositionOutBound(idx)
PositionOutBound(idx) == [tag |-> "PositionOutBound", err |-> "", idx |-> idx]
\* BuildChoosenError::EmptyBuilder
EmptyBuilder == [tag |-> "EmptyBuilder", err |-> "", idx |-> 0]
\* an index or remove past the end of a Vec panics
Panic == [tag |-> "Panic", err |-> "", idx |-> 0]

\* the record of one API call
Call(op, name, cap, idx, res) ==
    [op |-> op, name |-> name, cap |-> cap, idx |-> idx, res |-> res]

\* the sequence s without its element at 0-based index idx (Vec::remove)
RemoveAt(s, idx) ==
    [k \in 1..(Len(s) - 1) |-> IF k <= idx THEN s[k] ELSE s[k + 1]]

----------------------------------------------------------------------------
(* choosen/src/builder.rs: each operation gives the staged list afterwards *)
(* and the returned Result                                                 *)

\* the capacity is validated before the name
AddPositionCapFirst(ps, name, cap) ==
    LET sized == SetCap(PositionDefault, cap)
        named == SetName(sized.pos, name)
    IN  IF ~sized.ok THEN [positions |-> ps, res |-> WrongPositionType(sized.err)]
        ELSE IF ~named.ok THEN [positions |-> ps, res |-> WrongPositionType(named.err)]
        ELSE [positions |-> Append(ps, named.pos), res |-> Ok]

\* ChoosenBuilder::add_position
AddPosition(ps, name, cap) ==
    LET named == SetName(PositionDefault, name)
        sized == SetCap(named.pos, cap)
    IN  IF ~named.ok THEN [positions |-> ps, res |-> WrongPositionType(named.err)]
        ELSE IF ~sized.ok THEN [positions |-> ps, res |-> WrongPositionType(sized.err)]
        ELSE [positions |-> Append(ps, sized.pos), res |-> Ok]

\* ChoosenBuilder::check_idx
CheckIdx(ps, idx) == idx < Len(ps)

\* ChoosenBuilder::set_position_name; set_name acts on the staged position
\* itself (&mut self.positions[idx]), so what it leaves there is staged
SetPositionName(ps, name, idx) ==
    IF ~CheckIdx(ps, idx) THEN [positions |-> ps, res |-> PositionOutBound(idx)]
    ELSE LET named  == SetName(ps[idx + 1], name)
             staged == [ps EXCEPT ![idx + 1] = named.pos]
         IN  IF ~named.ok THEN [positions |-> staged, res |-> WrongPositionType(named.err)]
             ELSE [positions |-> staged, res |-> Ok]

\* the capacity is validated before the index is checked
SetPositionCapUnchecked(ps, new_cap, idx) ==
    IF new_cap = 0 THEN [positions |-> ps, res |-> WrongPositionType("ZeroCapacity")]
    ELSE IF ~CheckIdx(ps, idx) THEN [positions |-> ps, res |-> PositionOutBound(idx)]
    ELSE [positions |-> [ps EXCEPT ![idx + 1].cap = new_cap], res |-> Ok]

\* ChoosenBuilder::set_position_cap
SetPositionCap(ps, new_cap, idx) ==
    IF ~CheckIdx(ps, idx) THEN [positions |-> ps, res |-> PositionOutBound(idx)]
    ELSE LET sized  == SetCap(ps[idx + 1], new_cap)
             staged == [ps EXCEPT ![idx + 1] = sized.pos]
         IN  IF ~sized.ok THEN [positions |-> staged, res |-> WrongPositionType(sized.err)]
             ELSE [positions |-> staged, res |-> Ok]

\* the last position is dropped, whatever the index
RemovePositionPop(ps, idx) ==
    IF ~CheckIdx(ps, idx) THEN [positions |-> ps, res |-> PositionOutBound(idx)]
    ELSE [positions |-> SubSeq(ps, 1, Len(ps) - 1), res |-> Ok]

\* ChoosenBuilder::remove_position
RemovePosition(ps, idx) ==
    IF ~CheckIdx(ps, idx) THEN [positions |-> ps, res |-> PositionOutBound(idx)]
    ELSE [positions |-> RemoveAt(ps, idx), res |-> Ok]

\* the sum of the capacities of a list of positions
RECURSIVE SumCap(_)
SumCap(ps) == IF ps = <<>> THEN 0 ELSE Head(ps).cap + SumCap(Tail(ps))

\* a build that does not look at the staged list
BuildUnchecked(ps) ==
    [res |-> Ok, built |-> TRUE, positions |-> ps, lucky_cap |-> SumCap(ps)]

\* ChoosenBuilder::build: the Result, and on Ok the Choosen's fields
Build(ps) ==
    IF ps = <<>>
    THEN [res |-> EmptyBuilder, built |-> FALSE, positions |-> <<>>, lucky_cap |-> 0]
    ELSE [res |-> Ok, built |-> TRUE, positions |-> ps, lucky_cap |-> SumCap(ps)]

----------------------------------------------------------------------------
(* choosen/src/lib.rs: the ChoosenBuilder defined beside Choosen *)

\* ChoosenBuilder::add_position: pushes whatever it is given
LegacyAddPosition(ps, name, cap) ==
    [positions |-> Append(ps, [name |-> name, cap |-> cap]), res |-> Ok]

\* ChoosenBuilder::remove_position: Vec::remove panics past the end
LegacyRemovePosition(ps, idx) ==
    IF idx < Len(ps)
    THEN [positions |-> RemoveAt(ps, idx), res |-> Ok]
    ELSE [positions |-> ps, res |-> Panic]

\* ChoosenBuilder::set_position_name: indexing panics past the end
LegacySetPositionName(ps, name, idx) ==
    IF idx < Len(ps)
    THEN [positions |-> [ps EXCEPT ![idx + 1].name = name], res |-> Ok]
    ELSE [positions |-> ps, res |-> Panic]

\* ChoosenBuilder::build: never fails
LegacyBuild(ps) ==
    [res |-> Ok, built |-> TRUE, positions |-> ps, lucky_cap |-> SumCap(ps)]

----------------------------------------------------------------------------
(* choosen/src/lib.rs: Choosen *)

\* the inner loop of release: the items of slots counted..counted+cap-1, in order
RECURSIVE Luck(_, _, _, _)
Luck(final_lucky, counted, i, cap) ==
    IF ~(i < cap) THEN <<>>
    ELSE LET it == final_lucky[counted + i + 1]
         IN  (IF IsSome(it) THEN <<it>> ELSE <<>>) \o Luck(final_lucky, counted, i + 1, cap)

\* counted is never advanced: every position reads from slot 0
RECURSIVE WalkFromZero(_, _, _)
WalkFromZero(ps, final_lucky, counted) ==
    IF ps = <<>> THEN <<>>
    ELSE LET p == Head(ps)
         IN  <<[name |-> p.name, luck |-> Luck(final_lucky, 0, 0, p.cap)]>>
             \o WalkFromZero(Tail(ps), final_lucky, 0)

\* the outer loop of release over the positions left, counted slots consumed
RECURSIVE Walk(_, _, _)
Walk(ps, final_lucky, counted) ==
    IF ps = <<>> THEN <<>>
    ELSE LET p == Head(ps)
         IN  <<[name |-> p.name, luck |-> Luck(final_lucky, counted, 0, p.cap)]>>
             \o Walk(Tail(ps), final_lucky, counted + p.cap)

NoOneChosen == [ok |-> FALSE, err |-> "No one is choosen!", val |-> <<>>]

\* a release that reports the positions whatever the slots hold
ReleaseAlways(ps, final_lucky) ==
    [ok |-> TRUE, err |-> "", val |-> Walk(ps, final_lucky, 0)]

\* Choosen::release after lock returned final_lucky
Release(ps, final_lucky) ==
    IF ~(\E k \in 1..Len(final_lucky) : IsSome(final_lucky[k]))
    THEN NoOneChosen
    ELSE [ok |-> TRUE, err |-> "", val |-> Walk(ps, final_lucky, 0)]

----------------------------------------------------------------------------
(* State machine *)

NoRet == <<0, 0, None>>
NoTally == [c |-> 0, n |-> 0, it |-> 0, present |-> 0, ways |-> 0, done |-> FALSE]
NoResult == [ok |-> FALSE, err |-> "", val |-> <<>>]

\* a panic ends the program
Running == last.res.tag # "Panic"

\* the names given to the builder while a lottery is being prepared
LotNames == {"", "a"}

\* a program that drives a Reservoir directly, after with_capacity(n)
InitSampler ==
    /\ variant = "sampler"
    /\ positions = <<>>
    /\ cpositions = <<>>
    /\ \E n \in 0..MaxSlots :
          /\ capacity = n
          /\ total = WithCapacity(n).total
          /\ pool = WithCapacity(n).pool
          /\ last = Call("with_capacity", "", n, 0, Ok)
    /\ stage = "open"
    /\ ret = NoRet
    /\ locked = <<>>
    /\ result = NoResult
    /\ history = <<>>
    /\ tally = NoTally

\* a program that has just made a ChoosenBuilder with new()
InitStaging ==
    /\ positions = <<>>
    /\ cpositions = <<>>
    /\ capacity = 0
    /\ total = 0
    /\ pool = <<>>
    /\ last = Call("new", "", 0, 0, Ok)
    /\ stage = "staging"
    /\ ret = NoRet
    /\ locked = <<>>
    /\ result = NoResult
    /\ history = <<>>
    /\ tally = NoTally

InitBuilder == variant = "builder" /\ InitStaging

Init == variant \in {"builder", "legacy"} /\ InitStaging

\* the built Choosen shares the builder's list instead of owning a copy
StagedShared(op, name, cap, idx, o) ==
    /\ Running
    /\ Len(o.positions) <= MaxPositions
    /\ positions' = o.positions
    /\ last' = Call(op, name, cap, idx, o.res)
    /\ cpositions' = IF stage = "staging" THEN cpositions ELSE o.positions
    /\ UNCHANGED <<variant, stage, capacity, total, pool, ret, locked, result, history, tally>>

\* a builder operation that returned o = [positions, res]
Staged(op, name, cap, idx, o) ==
    /\ Running
    /\ Len(o.positions) <= MaxPositions
    /\ positions' = o.positions
    /\ last' = Call(op, name, cap, idx, o.res)
    /\ UNCHANGED <<variant, stage, cpositions, capacity, total, pool, ret, locked, result, history, tally>>

\* a build that returned o: the first Choosen built is the one followed
Built(o) ==
    /\ Running
    /\ last' = Call("build", "", 0, 0, o.res)
    /\ IF o.built /\ stage = "staging"
       THEN /\ stage' = "open"
            /\ cpositions' = o.positions
            /\ capacity' = o.lucky_cap
            /\ total' = WithCapacity(o.lucky_cap).total
            /\ pool' = WithCapacity(o.lucky_cap).pool
       ELSE UNCHANGED <<stage, cpositions, capacity, total, pool>>
    /\ UNCHANGED <<variant, positions, ret, locked, result, history, tally>>

(* builder.rs *)

add_position(name, cap) ==
    /\ variant = "builder"
    /\ Staged("add_position", name, cap, 0, AddPosition(positions, name, cap))

set_position_name(name, idx) ==
    /\ variant = "builder"
    /\ Staged("set_position_name", name, 0, idx, SetPositionName(positions, name, idx))

set_position_cap(new_cap, idx) ==
    /\ variant = "builder"
    /\ Staged("set_position_cap", "", new_cap, idx, SetPositionCap(positions, new_cap, idx))

remove_position(idx) ==
    /\ variant = "builder"
    /\ Staged("remove_position", "", 0, idx, RemovePosition(positions, idx))

build ==
    /\ variant = "builder"
    /\ Built(Build(positions))

(* lib.rs *)

legacy_add_position(name, cap) ==
    /\ variant = "legacy"
    /\ Staged("add_position", name, cap, 0, LegacyAddPosition(positions, name, cap))

legacy_set_position_name(name, idx) ==
    /\ variant = "legacy"
    /\ Staged("set_position_name", name, 0, idx, LegacySetPositionName(positions, name, idx))

legacy_remove_position(idx) ==
    /\ variant = "legacy"
    /\ Staged("remove_position", "", 0, idx, LegacyRemovePosition(positions, idx))

legacy_build ==
    /\ variant = "legacy"
    /\ Built(LegacyBuild(positions))

\* the sampler takes the next item of the stream, with raw random value raw
\* what one call of sample on pool p did, from its result o: the rank and the
\* value of the returned tuple, and whether the slots are as they were
Outcome(p, o) == [r |-> o.ret[1], out |-> o.ret[3], kept |-> o.pool = p]

Sampled(op, raw) ==
    /\ Running
    /\ stage = "open"
    /\ total < MaxDraws
    /\ LET o == Sample(total, pool, total + 1, raw)
       IN  /\ total' = o.total
           /\ pool' = o.pool
           /\ ret' = o.ret
           /\ history' = Append(history, Outcome(pool, o))
    /\ last' = Call(op, "", 0, 0, Ok)
    /\ UNCHANGED <<variant, positions, stage, cpositions, capacity, locked, result, tally>>

\* Choosen::poll_one
poll_one(raw) ==
    /\ variant \in {"builder", "legacy"}
    /\ Sampled("poll_one", raw)

\* Choosen::release: lock, then the winners by position
release ==
    /\ variant \in {"builder", "legacy"}
    /\ Running
    /\ stage = "open"
    /\ \E final_lucky \in Lock(total, pool) :
          /\ locked' = final_lucky
          /\ result' = Release(cpositions, final_lucky)
    /\ pool' = <<>>
    /\ stage' = "closed"
    /\ last' = Call("release", "", 0, 0, Ok)
    /\ UNCHANGED <<variant, positions, cpositions, capacity, total, ret, history, tally>>

\* Reservoir::sample
sample(raw) ==
    /\ variant = "sampler"
    /\ Sampled("sample", raw)

\* Reservoir::lock
lock ==
    /\ variant = "sampler"
    /\ stage = "open"
    /\ \E final \in Lock(total, pool) : locked' = final
    /\ pool' = <<>>
    /\ stage' = "closed"
    /\ last' = Call("lock", "", 0, 0, Ok)
    /\ UNCHANGED <<variant, positions, cpositions, capacity, total, ret, result, history, tally>>

NextSampler ==
    \/ \E raw \in RawValues : sample(raw)
    \/ lock

SpecSampler == InitSampler /\ [][NextSampler]_vars

\* the raw values that give each rank of 1..n once: a uniform rank
UniformRaws(n) == 0..(n - 1)

\* from total t and pool p, over every sequence of uniform ranks for the
\* items t+1..n: the number of sequences (ways) and the number of them after
\* which lock returns item it (present)
RECURSIVE Tally(_, _, _, _)
RECURSIVE TallyOver(_, _, _, _, _)
Tally(t, p, n, it) ==
    IF t >= n
    THEN [present |-> IF \A final \in Lock(t, p) : \E k \in 1..Len(final) : final[k] = it
                      THEN 1 ELSE 0,
          ways    |-> 1]
    ELSE TallyOver(t, p, n, it, 0)

\* the same, summed over the raw values raw, raw+1, .. of UniformRaws(t + 1)
TallyOver(t, p, n, it, raw) ==
    IF raw \notin UniformRaws(t + 1)
    THEN [present |-> 0, ways |-> 0]
    ELSE LET here == Tally(t + 1, Sample(t, p, t + 1, raw).pool, n, it)
             rest == TallyOver(t, p, n, it, raw + 1)
         IN  [present |-> here.present + rest.present, ways |-> here.ways + rest.ways]

\* a capacity, a stream length and one item of the stream
InitUniform ==
    /\ variant = "sampler"
    /\ positions = <<>>
    /\ cpositions = <<>>
    /\ capacity = 0
    /\ total = 0
    /\ pool = <<>>
    /\ last = Call("new", "", 0, 0, Ok)
    /\ stage = "staging"
    /\ ret = NoRet
    /\ locked = <<>>
    /\ result = NoResult
    /\ history = <<>>
    /\ \E c \in 0..MaxSlots, n \in 1..MaxDraws :
          \E it \in 1..n :
             tally = [c |-> c, n |-> n, it |-> it, present |-> 0, ways |-> 0, done |-> FALSE]

\* every run of with_capacity(c), n samples with uniform ranks, and lock
count_runs ==
    /\ ~tally.done
    /\ LET counted == Tally(WithCapacity(tally.c).total, WithCapacity(tally.c).pool,
                            tally.n, tally.it)
       IN  tally' = [tally EXCEPT !.present = counted.present,
                                  !.ways = counted.ways,
                                  !.done = TRUE]
    /\ UNCHANGED <<variant, positions, last, stage, cpositions, capacity, total, pool,
                   ret, locked, result, history>>

NextUniform == count_runs

SpecUniform == InitUniform /\ [][NextUniform]_vars

NextBuilder ==
    \/ \E name \in Names, cap \in Caps : add_position(name, cap)
    \/ \E name \in Names, idx \in Idxs : set_position_name(name, idx)
    \/ \E cap \in Caps, idx \in Idxs : set_position_cap(cap, idx)
    \/ \E idx \in Idxs : remove_position(idx)
    \/ build

SpecBuilder == InitBuilder /\ [][NextBuilder]_vars

\* the positions are staged, the Choosen is built, items are polled, and
\* the Choosen is released; the sampler holds at most MaxSlots slots
Next ==
    \/ stage = "staging" /\ \E name \in LotNames, cap \in Caps : add_position(name, cap)
    \/ stage = "staging" /\ \E name \in LotNames, idx \in Idxs : set_position_name(name, idx)
    \/ stage = "staging" /\ \E cap \in Caps, idx \in Idxs : set_position_cap(cap, idx)
    \/ stage = "staging" /\ \E idx \in Idxs : remove_position(idx)
    \/ stage = "staging" /\ SumCap(positions) <= MaxSlots /\ build
    \/ stage = "staging" /\ \E name \in LotNames, cap \in Caps : legacy_add_position(name, cap)
    \/ stage = "staging" /\ \E name \in LotNames, idx \in Idxs : legacy_set_position_name(name, idx)
    \/ stage = "staging" /\ \E idx \in Idxs : legacy_remove_position(idx)
    \/ stage = "staging" /\ SumCap(positions) <= MaxSlots /\ legacy_build
    \/ \E raw \in RawValues : poll_one(raw)
    \/ release

Spec == Init /\ [][Next]_vars

----------------------------------------------------------------------------
(* Properties *)

\* the slots of s that hold item x
SlotsOf(s, x) == {k \in 1..Len(s) : s[k] = x}

\* the items of the slots off+1..off+n of s, in slot order
Occupied(s, off, n) == SelectSeq(SubSeq(s, off + 1, off + n), IsSome)

\* the slots before position j of a list of positions
Offset(ps, j) == SumCap(SubSeq(ps, 1, j - 1))

\* C1: warm-up completeness: after n <= c samples and lock, each of the n
\* items is in exactly one slot of the returned sequence and the other
\* c - n slots are empty
WarmUpComplete ==
    (stage = "closed" /\ total <= capacity) =>
        /\ \A it \in 1..total : Cardinality(SlotsOf(locked, it)) = 1
        /\ Cardinality(SlotsOf(locked, None)) = capacity - total

\* a stream of 2 items ended in a pool of 3, and lock moved one to the last slot
WarmUpCompleteWitness ==
    /\ stage = "closed"
    /\ capacity = 3
    /\ total = 2
    /\ IsSome(locked[3])

\* C2: capacity bound: the slots seen through samples() are c after every
\* sample call, and lock returns exactly c slots, so at most c items
CapacityBound ==
    /\ stage = "open" => Len(pool) = capacity
    /\ stage = "closed" =>
          /\ Len(locked) = capacity
          /\ Cardinality({k \in 1..Len(locked) : IsSome(locked[k])}) <= capacity

\* more items than slots went through, and lock returned a full sequence
CapacityBoundWitness ==
    /\ stage = "closed"
    /\ capacity = 2
    /\ total > capacity
    /\ \A k \in 1..Len(locked) : IsSome(locked[k])

\* C3: rank validity: seen starts at 0, every sample call adds exactly 1 to
\* it and returns the new value, with a rank in 1..seen
RankValid ==
    /\ total = 0
    /\ [][last'.op = "sample" =>
            /\ total' = total + 1
            /\ ret'[2] = total'
            /\ 1 <= ret'[1]
            /\ ret'[1] <= ret'[2]]_vars

\* the third call returned seen = 3 and the rank 3, from a raw value past 3
RankValidWitness ==
    /\ last.op = "sample"
    /\ ret[2] = 3
    /\ ret[1] = 3
    /\ total = 3

\* C4: empty-stream rejection: release with no poll_one before it fails
\* with "No one is choosen!" and returns no winner lists
EmptyStreamRejected ==
    (stage = "closed" /\ total = 0) => result = NoOneChosen

\* a Choosen of builder.rs with two positions was released unpolled
EmptyStreamRejectedWitness ==
    /\ variant = "builder"
    /\ stage = "closed"
    /\ total = 0
    /\ Len(cpositions) = 2
    /\ ~result.ok

\* C5: release fails with "No one is choosen!" only for an empty stream:
\* after one or more poll_one calls it succeeds
NoOneChosenOnlyWhenEmpty ==
    stage = "closed" => (result.ok <=> total >= 1)

\* C6: position partition exactness: a successful release has one entry per
\* position, in declared order and under its name, holding exactly the
\* occupied slots of that position's range of the locked sequence, in order
PartitionExact ==
    (stage = "closed" /\ result.ok) =>
        /\ Len(result.val) = Len(cpositions)
        /\ \A j \in 1..Len(cpositions) :
              /\ result.val[j].name = cpositions[j].name
              /\ result.val[j].luck =
                    Occupied(locked, Offset(cpositions, j), cpositions[j].cap)

\* two positions, the first with a slot and no winner, the second with one
PartitionExactWitness ==
    /\ stage = "closed"
    /\ result.ok
    /\ Len(cpositions) = 2
    /\ cpositions[1].cap >= 1
    /\ result.val[1].luck = <<>>
    /\ Len(result.val[2].luck) = 1

\* the winners of a result, position after position
RECURSIVE Winners(_)
Winners(val) == IF val = <<>> THEN <<>> ELSE Head(val).luck \o Winners(Tail(val))

Min(a, b) == IF a <= b THEN a ELSE b

\* C7: winner count: after n >= 1 items into a Choosen of capacity C,
\* release returns min(n, C) winners, each a polled item reported once, no
\* position over its capacity, every item when n <= C and every position
\* full when n >= C
WinnerCount ==
    (stage = "closed" /\ total >= 1) =>
        /\ result.ok
        /\ Len(result.val) = Len(cpositions)
        /\ Len(Winners(result.val)) = Min(total, capacity)
        /\ \A j \in 1..Len(result.val) : Len(result.val[j].luck) <= cpositions[j].cap
        /\ \A k \in 1..Len(Winners(result.val)) :
              /\ Winners(result.val)[k] \in 1..total
              /\ Cardinality(SlotsOf(Winners(result.val), Winners(result.val)[k])) = 1
        /\ total <= capacity =>
              \A it \in 1..total : SlotsOf(Winners(result.val), it) # {}
        /\ total >= capacity =>
              \A j \in 1..Len(result.val) : Len(result.val[j].luck) = cpositions[j].cap

\* C8: add_position(name, cap) fails with EmptyName on an empty name, with
\* ZeroCapacity on a name and capacity 0, and otherwise appends (name, cap)
\* to the staged list, the positions before it unchanged
AddValidation ==
    [][last'.op = "add_position" =>
        IF last'.name = ""
        THEN last'.res = WrongPositionType("EmptyName")
        ELSE IF last'.cap = 0
        THEN last'.res = WrongPositionType("ZeroCapacity")
        ELSE /\ last'.res = Ok
             /\ positions' = Append(positions, [name |-> last'.name, cap |-> last'.cap])]_vars

\* a second, different position was appended
AddValidationWitness ==
    /\ last.op = "add_position"
    /\ last.res = Ok
    /\ Len(positions) = 2
    /\ positions[1] # positions[2]
    /\ positions[2] = [name |-> last.name, cap |-> last.cap]

\* C9: set_position_name, set_position_cap and remove_position fail with
\* PositionOutBound(idx) exactly when idx >= the number of staged positions,
\* whatever the other argument; with a valid index the setters fail with
\* EmptyName / ZeroCapacity as add_position does
IndexChecking ==
    [][last'.op \in {"set_position_name", "set_position_cap", "remove_position"} =>
        /\ last'.res.tag = "PositionOutBound" <=> last'.idx >= Len(positions)
        /\ last'.res.tag = "PositionOutBound" => last'.res = PositionOutBound(last'.idx)
        /\ (last'.op = "set_position_name" /\ last'.idx < Len(positions)) =>
              last'.res = IF last'.name = "" THEN WrongPositionType("EmptyName") ELSE Ok
        /\ (last'.op = "set_position_cap" /\ last'.idx < Len(positions)) =>
              last'.res = IF last'.cap = 0 THEN WrongPositionType("ZeroCapacity") ELSE Ok
        /\ (last'.op = "remove_position" /\ last'.idx < Len(positions)) =>
              last'.res = Ok]_vars

\* capacity 0 was set at index 1 of a list of one: the index is what failed
IndexCheckingWitness ==
    /\ last.op = "set_position_cap"
    /\ last.cap = 0
    /\ Len(positions) = 1
    /\ last.res = PositionOutBound(1)

\* C10: build fails with EmptyBuilder exactly when the staged list is empty
\* and succeeds otherwise, so a built Choosen has at least one position
BuildNeedsPositions ==
    /\ [](stage # "staging" => Len(cpositions) >= 1)
    /\ [][last'.op = "build" =>
            /\ last'.res = IF positions = <<>> THEN EmptyBuilder ELSE Ok
            /\ (last'.res = Ok /\ stage = "staging") =>
                  (stage' = "open" /\ cpositions' = positions)]_vars

\* a builder that had built a Choosen was emptied, and build failed on it
BuildNeedsPositionsWitness ==
    /\ stage = "open"
    /\ Len(cpositions) = 2
    /\ positions = <<>>
    /\ last.op = "build"
    /\ last.res = EmptyBuilder

\* C11: build snapshot: a successful build gives a Choosen with the staged
\* list as its positions and a reservoir of the summed capacity, total 0 and
\* every slot empty; builder operations after it leave that Choosen as it is
BuildSnapshot ==
    [][ /\ (last'.op = "build" /\ last'.res = Ok /\ stage = "staging") =>
              (/\ stage' = "open"
               /\ cpositions' = positions
               /\ Len(pool') = Offset(positions, Len(positions) + 1)
               /\ capacity' = Len(pool')
               /\ total' = 0
               /\ \A k \in 1..Len(pool') : pool'[k] = None)
        /\ (stage # "staging") =>
              (UNCHANGED <<stage, cpositions, capacity, total, pool>>) ]_vars

\* after the build the builder was edited: the Choosen kept the two
\* positions it was built with
BuildSnapshotWitness ==
    /\ stage = "open"
    /\ Len(cpositions) = 2
    /\ capacity = cpositions[1].cap + cpositions[2].cap
    /\ last.op \in {"add_position", "set_position_name", "set_position_cap", "remove_position"}
    /\ last.res = Ok
    /\ positions # cpositions

\* C13: slot occupancy: while sampling, slot i (from 0) is occupied exactly
\* when i < min(seen, capacity): no gap in warm-up, every slot once full
SlotOccupancy ==
    stage = "open" =>
        \A k \in 1..Len(pool) : IsSome(pool[k]) <=> k <= Min(total, capacity)

\* in warm-up the second item took slot 0 and the first went to slot 1
SlotOccupancyWitness ==
    /\ stage = "open"
    /\ capacity = 3
    /\ total = 2
    /\ pool = <<2, 1, None>>

\* the slots whose content differs between two pools of one length
Changed(p, q) == {k \in 1..Len(p) : p[k] # q[k]}

\* C14 as stated: every sample call adds 1 to seen and changes exactly zero
\* or exactly two slots
SampleZeroOrTwo ==
    [][ last'.op = "sample" =>
          (/\ total' = total + 1
           /\ Len(pool') = Len(pool)
           /\ Cardinality(Changed(pool, pool')) \in {0, 2}) ]_vars

\* C14 amended: every sample call adds 1 to seen and changes no slot when
\* the rank exceeds the capacity, the two slots r-1 and seen-1 in warm-up
\* with r < seen, and the one slot r-1 otherwise
SampleEffect ==
    [][ last'.op = "sample" =>
          (/\ total' = total + 1
           /\ Len(pool') = Len(pool)
           /\ Changed(pool, pool') =
                 IF ret'[1] > capacity THEN {}
                 ELSE IF total' <= capacity /\ ret'[1] < total' THEN {ret'[1], total'}
                 ELSE {ret'[1]}) ]_vars

\* a full pool of 2: the fourth item replaced slot 1 alone
SampleEffectWitness ==
    /\ last.op = "sample"
    /\ stage = "open"
    /\ capacity = 2
    /\ total = 4
    /\ ret[1] = 2
    /\ pool[2] = 4

\* C15 as stated: when r <= capacity and slot r-1 was occupied, sample
\* returns the item that occupied it and the new item is in slot r-1; the
\* returned value is empty only when r > capacity or slot r-1 was empty
EvictedReturned ==
    [][ last'.op = "sample" =>
          (/\ (ret'[1] <= capacity /\ IsSome(pool[ret'[1]])) =>
                 (ret'[3] = pool[ret'[1]] /\ pool'[ret'[1]] = total')
           /\ (ret'[3] = None) =>
                 (ret'[1] > capacity \/ pool[ret'[1]] = None)) ]_vars

\* C15 amended: when r <= capacity the new item is in slot r-1; once the
\* pool is full (seen > capacity) sample returns the item that occupied
\* slot r-1; in warm-up with r < seen that item goes to slot seen-1 and the
\* returned value is empty, as it is when r > capacity or the slot was empty
EvictedOrMoved ==
    [][ last'.op = "sample" =>
          (/\ (ret'[1] <= capacity) => (pool'[ret'[1]] = total')
           /\ (ret'[1] <= capacity /\ total' > capacity) => (ret'[3] = pool[ret'[1]])
           /\ (total' <= capacity /\ ret'[1] < total') =>
                 (ret'[3] = None /\ pool'[total'] = pool[ret'[1]])
           /\ (ret'[3] = None) =>
                 \/ ret'[1] > capacity
                 \/ pool[ret'[1]] = None
                 \/ (total' <= capacity /\ ret'[1] < total')) ]_vars

\* in warm-up the third item took slot 0: its item is in slot 2, none returned
EvictedOrMovedWitness ==
    /\ last.op = "sample"
    /\ capacity = 3
    /\ ret = <<1, 3, None>>
    /\ pool[1] = 3
    /\ IsSome(pool[3])

\* C16: lock on a full reservoir (seen >= capacity) passes the slots
\* through: whatever the random values, it returns the pool as it was
LockPassThrough ==
    [][ (last'.op = "lock" /\ total >= capacity) =>
          (/\ locked' = pool
           /\ Lock(total, pool) = {pool}
           /\ LockVisits({pool}, total) = {}) ]_vars

\* lock after exactly as many items as slots
LockPassThroughWitness ==
    /\ stage = "closed"
    /\ last.op = "lock"
    /\ capacity = 3
    /\ total = 3
    /\ locked[1] = 3

\* pool p after the content of slot r is moved to slot i
Moved(p, r, i) ==
    [k \in 1..Len(p) |-> IF k = i THEN p[r] ELSE IF k = r THEN None ELSE p[k]]

\* the number of occupied slots
Held(p) == Cardinality({k \in 1..Len(p) : IsSome(p[k])})

\* C17: lock with seen < capacity runs one step for each i in
\* seen+1..capacity; at each the slot i-1 is empty, and the content of a
\* slot r-1 with r in 1..i is moved into it, the source left empty; no
\* item is overwritten and lock returns as many items as were seen
LockOnlyMoves ==
    /\ (stage = "open" /\ total < capacity) =>
          /\ {v[1] : v \in LockVisits({pool}, total)} = (total + 1)..capacity
          /\ \A v \in LockVisits({pool}, total) : \A raw \in RawValues :
                /\ v[2][v[1]] = None
                /\ \E r \in 1..v[1] : LockStep(v[2], v[1], raw) = Moved(v[2], r, v[1])
                /\ Held(LockStep(v[2], v[1], raw)) = Held(v[2])
    /\ (stage = "closed" /\ total < capacity) => Held(locked) = total

\* the one item of a pool of 3 was moved to slot 1 and stayed there
LockOnlyMovesWitness ==
    /\ stage = "closed"
    /\ capacity = 3
    /\ total = 1
    /\ locked = <<None, 1, None>>

\* C18: a successful remove_position(idx) on a list of length L leaves a
\* list of length L-1: the positions before idx as they were, each
\* position after idx one place down, names and capacities unchanged
RemoveShifts ==
    [][ (last'.op = "remove_position" /\ last'.res = Ok) =>
          (/\ Len(positions') = Len(positions) - 1
           /\ \A j \in 0..(Len(positions) - 1) :
                 /\ j < last'.idx => positions'[j + 1] = positions[j + 1]
                 /\ j > last'.idx => positions'[j] = positions[j + 1]) ]_vars

\* the first of two positions was removed; the other is now first
RemoveShiftsWitness ==
    /\ last.op = "remove_position"
    /\ last.res = Ok
    /\ last.idx = 0
    /\ Len(positions) = 1
    /\ positions[1] = [name |-> "b", cap |-> 2]

\* a position with a name and a capacity of at least 1
ValidPosition(pos) == pos.name # "" /\ pos.cap >= 1

\* C19: whatever builder operations were called, every staged position has
\* a non-empty name and a capacity >= 1, and so has every position of a
\* built Choosen, whose reservoir then has a capacity >= 1
StagedValid ==
    /\ \A j \in 1..Len(positions) : ValidPosition(positions[j])
    /\ stage # "staging" =>
          /\ \A j \in 1..Len(cpositions) : ValidPosition(cpositions[j])
          /\ capacity >= 1

\* C20: a builder operation that returns an error leaves the staged list
\* exactly as it was
FailedChangesNothing ==
    [][ (/\ last'.op \in {"add_position", "set_position_name", "set_position_cap",
                           "remove_position", "build"}
         /\ last'.res # Ok) =>
          positions' = positions ]_vars

\* capacity 0 was refused for the second of two staged positions
FailedChangesNothingWitness ==
    /\ last.op = "set_position_cap"
    /\ last.idx = 1
    /\ last.res = WrongPositionType("ZeroCapacity")
    /\ Len(positions) = 2

\* C12: uniformity: for a capacity c and a stream of n >= c items, each item
\* is in the locked result in c out of n of the equally likely sequences of
\* ranks: with probability c/n
Uniformity ==
    (tally.done /\ tally.n >= tally.c) =>
        /\ tally.ways >= 1
        /\ tally.present * tally.n = tally.c * tally.ways

\* the first of 5 items is kept by a pool of 2 in 48 of the 120 sequences
UniformityWitness ==
    /\ tally.done
    /\ tally.c = 2
    /\ tally.n = 5
    /\ tally.it = 1
    /\ tally.ways = 120
    /\ tally.present = 48

\* the calls of sample that returned item it as the evicted value
EvictedBy(it) == {k \in 1..Len(history) : history[k].out = it}

\* item it was rejected at its own call: rank above the capacity, slots unchanged
Rejected(it) == history[it].r > Capacity(pool) /\ history[it].kept

\* in how many of the three places item it is: one slot, one eviction, rejection
Places(it) ==
    (IF Cardinality(SlotsOf(pool, it)) = 1 THEN 1 ELSE 0)
    + (IF Cardinality(EvictedBy(it)) = 1 THEN 1 ELSE 0)
    + (IF Rejected(it) THEN 1 ELSE 0)

\* C21: item conservation: while the reservoir takes samples, each item passed
\* to sample (items are the arrival indexes 1..total) is in exactly one of
\* three places: held in exactly one slot, returned as the evicted value of
\* exactly one call, or rejected at its own call; a slot holds nothing or an
\* item that was passed to sample, and no item is in two slots or evicted twice
ItemConservation ==
    (variant = "sampler" /\ stage = "open") =>
        /\ Len(history) = total
        /\ \A it \in 1..total :
              /\ Places(it) = 1
              /\ Cardinality(SlotsOf(pool, it)) <= 1
              /\ Cardinality(EvictedBy(it)) <= 1
        /\ \A k \in 1..Len(pool) : IsSome(pool[k]) => pool[k] \in 1..total

\* a full pool of 2 after 4 items: one item was evicted, one rejected, two are held
ItemConservationWitness ==
    /\ variant = "sampler"
    /\ stage = "open"
    /\ Capacity(pool) = 2
    /\ total = 4
    /\ \E a, b \in 1..total :
          /\ a # b
          /\ Cardinality(EvictedBy(a)) = 1
          /\ Rejected(b)
          /\ Cardinality({it \in 1..total : SlotsOf(pool, it) # {}}) = 2

====
